---- MODULE Spec2Model ----
(***************************************************************************)
(* A model of the ATAG One thermostat app: the local-network client        *)
(* (lib/AtagOneApi.ts) and the device adapter that polls it and runs the   *)
(* flow actions (drivers/atagone/device.ts).                               *)
(*                                                                         *)
(* Granularity.  Every handler of the adapter awaits exactly one device    *)
(* request; a handler is therefore two steps, the one that issues the      *)
(* request (the request is then in flight) and the one in which the        *)
(* request is resolved or rejected and the rest of the handler runs.       *)
(* Calls into the host platform (setCapabilityValue, trigger,              *)
(* setAvailable, setUnavailable) take effect within the step that makes    *)
(* them and are taken not to fail.                                         *)
(*                                                                         *)
(* Units.  Temperatures are integers in tenths of a degree (21.5 C is      *)
(* 215), pressures are integers in tenths of a bar (1.2 bar is 12).        *)
(***************************************************************************)
EXTENDS Integers, Sequences, FiniteSets, TLC

(***************************************************************************)
(* Values                                                                  *)
(***************************************************************************)

\* JavaScript's undefined, for an optional number.
Undef == -9999

\* JavaScript's null: what getCapabilityValue returns before a value is set.
Null == -9998

\* enum AuthStatus
NOT_AVAILABLE == 0
PENDING == 1
GRANTED == 2
DENIED == 3

\* MessageInfo, the info flags of a retrieve message.
CONTROL == 1
REPORT == 8
STATUS == 16

MIN_TEMP == 40
MAX_TEMP == 270

\* The messages of the errors the client throws.
ErrConnection == "Connection error"
ErrTimeout == "Request timeout"
ErrParse == "Failed to parse response"
ErrInvalidPair == "Invalid pair response"
ErrInvalidRetrieve == "Invalid retrieve response"
ErrDenied == "Authorization denied. Please re-pair the device."
ErrPending == "Authorization pending. Please approve on thermostat."
ErrAuthTimeout == "Authorization timeout"

TransportErrors == {ErrConnection, ErrTimeout, ErrParse}

(***************************************************************************)
(* Bounds of the model                                                     *)
(***************************************************************************)

\* Poll cycles started over a run (the initial one included), under Spec,
\* SpecLifecycle, SpecPoller, SpecStatus and SpecBoiler.
MaxPolls == 2
LifecycleMaxPolls == 4
PollerMaxPolls == 2
StatusMaxPolls == 2
BoilerMaxPolls == 4

\* Invocations of the capability listener and of the flow actions over a run,
\* under Spec, SpecPoller and SpecStatus.
MaxCommands == 2
PollerMaxCommands == 1
StatusMaxCommands == 1

\* Interval timers created over a run, under Spec and SpecLifecycle.
MaxTimers == 2
LifecycleMaxTimers == 3

\* The temperatures setTargetTemperature is called with under
\* SpecTemperature, in hundredths of a degree: from MaxBelowZero below zero
\* to MaxFineTemp.
MaxBelowZero == 300
MaxFineTemp == 3100

\* The set_temperature_duration invocations under SpecOverride.
OverrideMaxCommands == 2

\* The polls and the greatest boiler_status under SpecFlags.
FlagsMaxPolls == 2
MaxBoilerStatus == 31

\* The longest identifier updateSettings is called with under SpecIdentifier.
MaxMacLen == 2

\* The largest maxAttempts waitForAuthorization is called with.
MaxMaxAttempts == 5

(***************************************************************************)
(* What the network and the device do with one request                     *)
(***************************************************************************)

\* The body of a reply, parsed: has_reply says whether the reply's top-level
\* key (pair_reply, retrieve_reply, update_reply) is present.
Body(has, acc, room, target, pres, boiler) ==
    [has_reply |-> has, acc_status |-> acc, room_temp |-> room,
     ch_mode_temp |-> target, ch_water_pres |-> pres, boiler_status |-> boiler]

NoBody == Body(FALSE, Undef, Undef, Undef, Undef, Undef)

\* net: "error" (the socket fails), "timeout" (no activity for TIMEOUT ms),
\* "garbage" (a body that is not JSON), "json" (a body that parses to `body`).
NetError == [net |-> "error", body |-> NoBody]
NetTimeout == [net |-> "timeout", body |-> NoBody]
NetGarbage == [net |-> "garbage", body |-> NoBody]
NetJson(b) == [net |-> "json", body |-> b]

TransportFailures == {NetError, NetTimeout, NetGarbage}

AccValues == {Undef, NOT_AVAILABLE, PENDING, GRANTED, DENIED}

\* Replies to /update and /pair_message: the key absent, or present with any
\* acc_status or none.
StatusReplies ==
    {NetJson(NoBody)} \cup
    {NetJson(Body(TRUE, a, Undef, Undef, Undef, Undef)) : a \in AccValues}

RoomTemps == {Undef, 200, 215}
TargetTemps == {Undef, 180, 195}
Pressures == {Undef, 12, 15}
BoilerStatuses == {Undef, 0, 4, 8}

(***************************************************************************)
(* AtagOneApi                                                              *)
(***************************************************************************)

Resolve(v) == [ok |-> TRUE, err |-> "", val |-> v]
Reject(e) == [ok |-> FALSE, err |-> e, val |-> NoBody]

\* request: one POST; the promise is rejected on a socket error, on a timeout
\* and on a body JSON.parse refuses, and resolved with the parsed body otherwise.
request(net) ==
    IF net.net = "error" THEN Reject(ErrConnection)
    ELSE IF net.net = "timeout" THEN Reject(ErrTimeout)
    ELSE IF net.net = "garbage" THEN Reject(ErrParse)
    ELSE Resolve(net.body)

\* A test that b is the bit's value and nothing else.
BitSetAlone(b, bit) == b = bit

\* (b & bit) !== 0, for bit a power of two and b >= 0.
BitSet(b, bit) == (b \div bit) % 2 = 1

ThermostatData(room, target, pres, heating, dhw, flame) ==
    [roomTemperature |-> room, targetTemperature |-> target,
     waterPressure |-> pres, boilerHeating |-> heating,
     hotWaterActive |-> dhw, flameOn |-> flame]

NoData == ThermostatData(Undef, Undef, Undef, FALSE, FALSE, FALSE)

Return(d) == [ok |-> TRUE, err |-> "", data |-> d]
Throw(e) == [ok |-> FALSE, err |-> e, data |-> NoData]

\* Checks that let a pending authorization through.
getDataAuthErrorDeniedOnly(acc) == IF acc = DENIED THEN ErrDenied ELSE ""

\* The checks getData makes on acc_status.
getDataAuthError(acc) ==
    IF acc = DENIED THEN ErrDenied
    ELSE IF acc = PENDING THEN ErrPending
    ELSE ""

\* getData: one retrieve request, then the reply's checks and the snapshot.
getData(net) ==
    LET response == request(net)
        reply == response.val
        boilerStatus == IF reply.boiler_status = Undef THEN 0 ELSE reply.boiler_status
    IN  IF ~response.ok THEN Throw(response.err)
        ELSE IF ~reply.has_reply THEN Throw(ErrInvalidRetrieve)
        ELSE IF getDataAuthError(reply.acc_status) # ""
             THEN Throw(getDataAuthError(reply.acc_status))
        ELSE Return(ThermostatData(
                 reply.room_temp, reply.ch_mode_temp, reply.ch_water_pres,
                 BitSet(boilerStatus, 8), BitSet(boilerStatus, 4),
                 BitSet(boilerStatus, 8) \/ BitSet(boilerStatus, 4)))

\* A rounding that truncates where Math.round rounds to the nearest.
RoundToHalfTruncating(c) == (IF c >= 0 THEN (2 * c) \div 100 ELSE 0) * 5

\* Math.round(temperature * 2) / 2 for a temperature c in hundredths of a
\* degree, the result in tenths: Math.round(x) is floor(x + 0.5), the nearest
\* integer with halves upwards.
RoundToHalfFine(c) == ((2 * c + 50) \div 100) * 5

\* The same for a temperature in tenths of a degree; null * 2 is 0.
RoundToHalf(t) ==
    LET n == IF t = Null THEN 0 ELSE t
    IN  RoundToHalfFine(10 * n)

Min(a, b) == IF a < b THEN a ELSE b
Max(a, b) == IF a > b THEN a ELSE b

\* The ch_mode_temp that setTargetTemperature sends, in tenths, for a
\* temperature in hundredths and for one in tenths.
ClampedTempFine(c) == Max(MIN_TEMP, Min(MAX_TEMP, RoundToHalfFine(c)))

ClampedTemp(t) == Max(MIN_TEMP, Min(MAX_TEMP, RoundToHalf(t)))

\* The checks setTargetTemperature makes on the reply (update_reply?.acc_status:
\* an absent update_reply gives undefined, which is neither status).
setTargetTemperatureAuthError(reply) ==
    LET acc == IF reply.has_reply THEN reply.acc_status ELSE Undef
    IN  IF acc = DENIED THEN ErrDenied
        ELSE IF acc = PENDING THEN ErrPending
        ELSE ""

\* setTargetTemperature, from the reply on: the outcome of the call.
setTargetTemperature(net) ==
    LET response == request(net)
    IN  IF ~response.ok THEN Throw(response.err)
        ELSE IF setTargetTemperatureAuthError(response.val) # ""
             THEN Throw(setTargetTemperatureAuthError(response.val))
        ELSE Return(NoData)

\* A pair that tests acc_status for truth, and so takes 0 for a missing one.
pairByTruthiness(net) ==
    LET response == request(net)
    IN  IF ~response.ok THEN [ok |-> FALSE, err |-> response.err, status |-> Undef]
        ELSE IF response.val.has_reply
                /\ response.val.acc_status \notin {Undef, 0}
             THEN [ok |-> TRUE, err |-> "", status |-> response.val.acc_status]
        ELSE [ok |-> FALSE, err |-> ErrInvalidPair, status |-> Undef]

\* pair, from the reply on: the status of the reply, or an error.
pair(net) ==
    LET response == request(net)
    IN  IF ~response.ok THEN [ok |-> FALSE, err |-> response.err, status |-> Undef]
        ELSE IF response.val.has_reply /\ response.val.acc_status # Undef
             THEN [ok |-> TRUE, err |-> "", status |-> response.val.acc_status]
        ELSE [ok |-> FALSE, err |-> ErrInvalidPair, status |-> Undef]

\* A probe that reads the data and so fails on every error of getData.
testConnectionByGetData(net) == getData(net).ok

\* testConnection, from the reply on: true unless the request is rejected.
testConnection(net) == request(net).ok

\* Characters of a MAC address as it is typed, and toUpperCase on them.
MacChars == {"a", "b", "A", "B", "0", "1", ":", "-"}

ToUpperCase(c) ==
    CASE c = "a" -> "A" [] c = "b" -> "B" [] c = "c" -> "C"
      [] c = "d" -> "D" [] c = "e" -> "E" [] c = "f" -> "F"
      [] OTHER -> c

\* A normalization whose pattern names the colon only.
normalizeColonsOnly(mac) ==
    LET stripped == SelectSeq(mac, LAMBDA c : c # ":")
    IN  [i \in DOMAIN stripped |-> ToUpperCase(stripped[i])]

\* mac.replace(/[:-]/g, '').toUpperCase()
normalizeMacAddress(mac) ==
    LET stripped == SelectSeq(mac, LAMBDA c : c \notin {":", "-"})
    IN  [i \in DOMAIN stripped |-> ToUpperCase(stripped[i])]

(***************************************************************************)
(* AtagOneDevice: the state                                                *)
(***************************************************************************)

VARIABLES
    lifecycle,            \* "constructed", "running" (onInit has run), "deleted"
    pollInterval,         \* this.pollInterval: an interval handle, or Undef
    boostTimeout,         \* this.boostTimeout: a timeout handle, or Undef
    previousTemperature,  \* this.previousTemperature
    prevRoomTemp,         \* this.prevRoomTemp
    prevTargetTemp,       \* this.prevTargetTemp
    prevPressure,         \* this.prevPressure
    prevBoilerHeating,    \* this.prevBoilerHeating: <<>> (undefined) or <<flag>>
    capabilities,         \* the host's capability values of the device
    available,            \* the host's getAvailable()
    unavailableMessage,   \* the message of the last setUnavailable
    liveIntervals,        \* the runtime's interval timers that are not cleared
    liveTimeouts,         \* the runtime's timeouts neither fired nor cleared
    inflight,             \* the requests started and not yet resolved or rejected
    nextTimer,            \* the next interval handle
    nPolls,               \* poll cycles started
    nCommands,            \* listener and flow action invocations started
    \* What has happened, kept for the properties:
    cancelledIntervals,   \* the interval handles clearInterval was called on
    lastDuration,         \* the latest set_temperature_duration invocation, or Undef
    beforeOverride,       \* the target shown when the running override chain began
    restorations,         \* the restorations executed
    nSuccess,             \* poll cycles whose getData succeeded
    retrieved,            \* per field, the value retrieved last (Undef: none yet)
    lastSnapshot,         \* the snapshot retrieved last
    lastPoll,             \* the poll cycle completed last
    lastCommand,          \* the setTargetTemperature call completed last
    boilerFlags,          \* the boiler-heating flag of every snapshot, in order
    boilerEvents,         \* the boiler triggers dispatched, in order
    \* One call of waitForAuthorization:
    authPc,               \* "idle", "pairing", "sleeping", "returned", "thrown"
    maxAttempts,          \* the argument maxAttempts
    hasObserver,          \* whether onStatus is passed
    attempt,              \* the loop variable
    authResult,           \* the status returned, or Undef
    authError,            \* the message of the error thrown, or ""
    pairRequests,         \* the pair requests issued
    sleeps,               \* the sleeps started
    statuses,             \* the statuses pair() returned, in order
    observed,             \* the statuses onStatus was called with, in order
    lastPair,             \* the reply to the last pair request and its outcome
    ipAddress,            \* this.ipAddress of a client
    macAddress,           \* this.macAddress, a sequence of characters
    deviceName,           \* this.deviceName
    email,                \* this.email
    lastCall,             \* the last call of the client and its outcome
    settings              \* the host's settings of the device, getSettings()

deviceFields ==
    <<lifecycle, pollInterval, boostTimeout, previousTemperature>>
snapshotFields ==
    <<prevRoomTemp, prevTargetTemp, prevPressure, prevBoilerHeating>>
hostState == <<capabilities, available, unavailableMessage>>
runtimeState == <<liveIntervals, liveTimeouts, inflight>>
counters == <<nextTimer, nPolls, nCommands>>
history ==
    <<cancelledIntervals, lastDuration, beforeOverride, restorations, nSuccess, retrieved,
      lastSnapshot, lastPoll, lastCommand>>
boilerLog == <<boilerFlags, boilerEvents>>
authVars ==
    <<authPc, maxAttempts, hasObserver, attempt, authResult, authError,
      pairRequests, sleeps, statuses, observed, lastPair>>
deviceVars ==
    <<deviceFields, snapshotFields, hostState, runtimeState, counters, history>>

connectionSettings == <<ipAddress, macAddress, deviceName, email>>
clientVars == <<connectionSettings, lastCall, settings>>

vars ==
    <<deviceVars, boilerLog, authVars, clientVars>>

\* A Partial<ConnectionSettings>: for each field, whether it is present, and
\* its value if it is.
Partial(hasIp, ip, hasMac, mac, hasName, name, hasEmail, mail) ==
    [hasIpAddress |-> hasIp, ipAddress |-> ip,
     hasMacAddress |-> hasMac, macAddress |-> mac,
     hasDeviceName |-> hasName, deviceName |-> name,
     hasEmail |-> hasEmail, email |-> mail]

NoPartial == Partial(FALSE, "", FALSE, <<>>, FALSE, "", FALSE, "")

Settings(ip, mac, name, mail) ==
    [ipAddress |-> ip, macAddress |-> mac, deviceName |-> name, email |-> mail]

NoCall ==
    [op |-> "", info |-> Undef, net |-> NetError, threw |-> FALSE, err |-> "",
     bool |-> FALSE, status |-> Undef, sent |-> Undef, temperature |-> Undef,
     partial |-> NoPartial, before |-> Settings("", <<>>, "", "")]

NoPair ==
    [seq |-> 0, net |-> NetError, ok |-> FALSE, err |-> "", status |-> Undef]

NoPrevious ==
    [room |-> Undef, target |-> Undef, pressure |-> Undef, boiler |-> <<>>]

\* The previous values as one record.
Previous ==
    [room |-> prevRoomTemp, target |-> prevTargetTemp,
     pressure |-> prevPressure, boiler |-> prevBoilerHeating]

NoPoll ==
    [seq |-> Undef, timer |-> Undef, net |-> NetError, ok |-> FALSE, err |-> "",
     data |-> NoData, before |-> NoPrevious, seen |-> NoPrevious,
     prior |-> NoData, shown |-> Null, events |-> <<>>, rank |-> Undef]

NoCommand ==
    [seq |-> Undef, kind |-> "", net |-> NetError, ok |-> FALSE, err |-> "",
     sent |-> Undef]

Init ==
    /\ lifecycle = "constructed"
    /\ pollInterval = Undef
    /\ boostTimeout = Undef
    /\ previousTemperature = Undef
    /\ prevRoomTemp = Undef
    /\ prevTargetTemp = Undef
    /\ prevPressure = Undef
    /\ prevBoilerHeating = <<>>
    /\ capabilities =
           [measure_temperature |-> Null, target_temperature |-> Null,
            measure_pressure |-> Null, alarm_boiler |-> <<>>]
    /\ available = TRUE
    /\ unavailableMessage = ""
    /\ liveIntervals = {}
    /\ liveTimeouts = {}
    /\ inflight = {}
    /\ nextTimer = 1
    /\ nPolls = 0
    /\ nCommands = 0
    /\ cancelledIntervals = {}
    /\ lastDuration = Undef
    /\ beforeOverride = Null
    /\ restorations = {}
    /\ nSuccess = 0
    /\ retrieved = NoPrevious
    /\ lastSnapshot = NoData
    /\ lastPoll = NoPoll
    /\ lastCommand = NoCommand
    /\ boilerFlags = <<>>
    /\ boilerEvents = <<>>
    /\ authPc = "idle"
    /\ maxAttempts = 0
    /\ hasObserver = FALSE
    /\ attempt = 0
    /\ authResult = Undef
    /\ authError = ""
    /\ pairRequests = 0
    /\ sleeps = 0
    /\ statuses = <<>>
    /\ observed = <<>>
    /\ lastPair = NoPair
    /\ ipAddress = "10.0.0.2"
    /\ macAddress = normalizeMacAddress(<<"a", "b", ":", "0", "1">>)
    /\ deviceName = "Homey"
    /\ email = "user@example.com"
    /\ lastCall = NoCall
    /\ settings = [ip_address |-> "10.0.0.2",
                   mac_address |-> <<"a", "b", ":", "0", "1">>,
                   device_name |-> "Homey", email |-> "user@example.com"]

(***************************************************************************)
(* AtagOneDevice: the poller                                               *)
(***************************************************************************)

\* A handler invocation that awaits its device request: the seq-th poll cycle,
\* the seq-th command, or the restoration of timeout seq.
Invocation(kind, seq, timer, temperature) ==
    [kind |-> kind, seq |-> seq, timer |-> timer, temperature |-> temperature]

\* A stopPolling that forgets the handle without clearing the timer.
clearIntervalForgotten(live, handle) == live

\* clearInterval(handle) on the runtime's interval timers.
clearInterval(live, handle) == live \ {handle}

\* stopPolling, on the runtime's timers: if (this.pollInterval) clearInterval(..).
StoppedIntervals ==
    IF pollInterval # Undef THEN clearInterval(liveIntervals, pollInterval)
    ELSE liveIntervals

StoppedCancelled ==
    IF pollInterval # Undef THEN cancelledIntervals \cup {pollInterval}
    ELSE cancelledIntervals

stopPolling ==
    /\ liveIntervals' = StoppedIntervals
    /\ cancelledIntervals' = StoppedCancelled
    /\ pollInterval' = Undef

\* startPolling: stopPolling(), then setInterval(() => this.pollData(), ..).
startPolling ==
    /\ liveIntervals' = StoppedIntervals \cup {nextTimer}
    /\ cancelledIntervals' = StoppedCancelled
    /\ pollInterval' = nextTimer
    /\ nextTimer' = nextTimer + 1

\* pollData up to its await: the retrieve request of getData is in flight.
\* timer is the interval handle whose callback makes the call (Undef: onInit).
pollDataStarts(timer) ==
    /\ inflight' = inflight \cup {Invocation("poll", nPolls + 1, timer, Undef)}
    /\ nPolls' = nPolls + 1

Trigger(card, value) == [card |-> card, value |-> value]

\* A comparison that takes the missing baseline for a difference.
ChangedWithoutBaseline(prev, new) == new # Undef /\ prev # new

\* if (this.prevX !== undefined && this.prevX !== data.x), inside
\* if (data.x !== undefined).
Changed(prev, new) == new # Undef /\ prev # Undef /\ prev # new

\* this.prevX after the field's block.
Recorded(prev, new) == IF new # Undef THEN new ELSE prev

\* setCapabilityValue(.., data.x) inside if (data.x !== undefined).
Shown(old, new) == IF new # Undef THEN new ELSE old

roomTriggers(data) ==
    IF Changed(prevRoomTemp, data.roomTemperature)
    THEN <<Trigger("temperature_changed", data.roomTemperature)>>
    ELSE <<>>

\* A comparison against the shown capability value.
targetTriggersAgainstShown(data) ==
    IF Changed(capabilities.target_temperature, data.targetTemperature)
    THEN <<Trigger("target_temperature_changed", data.targetTemperature)>>
    ELSE <<>>

targetTriggers(data) ==
    IF Changed(prevTargetTemp, data.targetTemperature)
    THEN <<Trigger("target_temperature_changed", data.targetTemperature)>>
    ELSE <<>>

\* A poller that dispatches pressure_too_low in every cycle with a pressure.
pressureTriggersEveryCycle(data) ==
    (IF Changed(prevPressure, data.waterPressure)
     THEN <<Trigger("pressure_changed", data.waterPressure)>>
     ELSE <<>>) \o
    (IF data.waterPressure # Undef
     THEN <<Trigger("pressure_too_low", data.waterPressure)>>
     ELSE <<>>)

pressureTriggers(data) ==
    IF Changed(prevPressure, data.waterPressure)
    THEN <<Trigger("pressure_changed", data.waterPressure),
           Trigger("pressure_too_low", data.waterPressure)>>
    ELSE <<>>

\* A poller that reports the flag's level, not its transitions.
boilerTriggersByLevel(data) ==
    IF prevBoilerHeating # <<>>
    THEN IF data.boilerHeating
         THEN <<Trigger("boiler_started", Undef)>>
         ELSE <<Trigger("boiler_stopped", Undef)>>
    ELSE <<>>

boilerTriggers(data) ==
    IF prevBoilerHeating # <<>> /\ prevBoilerHeating # <<data.boilerHeating>>
    THEN IF data.boilerHeating
         THEN <<Trigger("boiler_started", Undef)>>
         ELSE <<Trigger("boiler_stopped", Undef)>>
    ELSE <<>>

\* The triggers updateCapabilitiesAndTriggerFlows dispatches, in order.
triggersOf(data) ==
    roomTriggers(data) \o targetTriggers(data) \o pressureTriggers(data)
        \o boilerTriggers(data)

\* data.waterPressure * 1000, bar to mbar: on tenths of a bar, times 100.
pressureMbar(p) == p * 100

\* updateCapabilitiesAndTriggerFlows: the capability values and the previous
\* values it leaves.
updateCapabilitiesAndTriggerFlows(data) ==
    /\ capabilities' =
           [measure_temperature |->
                Shown(capabilities.measure_temperature, data.roomTemperature),
            target_temperature |->
                Shown(capabilities.target_temperature, data.targetTemperature),
            measure_pressure |->
                IF data.waterPressure # Undef
                THEN pressureMbar(data.waterPressure)
                ELSE capabilities.measure_pressure,
            alarm_boiler |-> <<data.boilerHeating>>]
    /\ prevRoomTemp' = Recorded(prevRoomTemp, data.roomTemperature)
    /\ prevTargetTemp' = Recorded(prevTargetTemp, data.targetTemperature)
    /\ prevPressure' = Recorded(prevPressure, data.waterPressure)
    /\ prevBoilerHeating' = <<data.boilerHeating>>

\* Per field, the value retrieved last once the snapshot data is in.
Retrieved(data) ==
    [room |-> IF data.roomTemperature = Undef THEN retrieved.room
              ELSE data.roomTemperature,
     target |-> IF data.targetTemperature = Undef THEN retrieved.target
                ELSE data.targetTemperature,
     pressure |-> IF data.waterPressure = Undef THEN retrieved.pressure
                  ELSE data.waterPressure,
     boiler |-> <<data.boilerHeating>>]

\* A catch block that also drops the previous values.
pollFailedDropsPrevious ==
    /\ available' = FALSE
    /\ unavailableMessage' = "Connection failed"
    /\ prevRoomTemp' = Undef
    /\ prevTargetTemp' = Undef
    /\ prevPressure' = Undef
    /\ prevBoilerHeating' = <<>>
    /\ UNCHANGED capabilities

\* A catch block that logs the error and reports nothing.
pollFailedSilently ==
    UNCHANGED <<hostState, snapshotFields>>

\* The catch block of pollData.
pollFailed ==
    /\ available' = FALSE
    /\ unavailableMessage' = "Connection failed"
    /\ UNCHANGED <<snapshotFields, capabilities>>

\* pollData from the settling of its request on.
pollDataSettles(q, net) ==
    LET result == getData(net)
        events == IF result.ok THEN triggersOf(result.data) ELSE <<>>
    IN  /\ q \in inflight
        /\ q.kind = "poll"
        /\ inflight' = inflight \ {q}
        /\ IF result.ok
           THEN /\ updateCapabilitiesAndTriggerFlows(result.data)
                /\ available' = TRUE
                /\ UNCHANGED unavailableMessage
           ELSE pollFailed
        /\ nSuccess' = IF result.ok THEN nSuccess + 1 ELSE nSuccess
        /\ retrieved' = IF result.ok THEN Retrieved(result.data) ELSE retrieved
        /\ lastSnapshot' = IF result.ok THEN result.data ELSE lastSnapshot
        /\ lastPoll' =
               [seq |-> q.seq, timer |-> q.timer, net |-> net, ok |-> result.ok,
                err |-> result.err, data |-> result.data, before |-> Previous,
                seen |-> retrieved, prior |-> lastSnapshot,
                shown |-> capabilities.target_temperature, events |-> events,
                rank |-> nSuccess']
        /\ UNCHANGED <<deviceFields, liveIntervals, liveTimeouts, counters,
                       cancelledIntervals, lastDuration, beforeOverride, restorations, lastCommand>>
        /\ UNCHANGED <<authVars, clientVars>>

\* The callback of the interval timer.
IntervalFires(h) ==
    /\ h \in liveIntervals
    /\ pollDataStarts(h)
    /\ UNCHANGED <<deviceFields, snapshotFields, hostState, liveIntervals,
                   liveTimeouts, nextTimer, nCommands, history>>
    /\ UNCHANGED <<boilerLog, authVars, clientVars>>

\* onInit: the client is made, the listeners are registered, polling starts
\* and the initial poll is awaited.
onInit ==
    /\ lifecycle = "constructed"
    /\ lifecycle' = "running"
    /\ startPolling
    /\ pollDataStarts(Undef)
    /\ UNCHANGED <<boostTimeout, previousTemperature, snapshotFields, hostState,
                   liveTimeouts, nCommands, lastDuration, beforeOverride, restorations, nSuccess,
                   retrieved, lastSnapshot, lastPoll, lastCommand>>
    /\ UNCHANGED <<boilerLog, authVars, clientVars>>

\* onSettings with poll_interval among the changed keys.
onSettingsPollInterval ==
    /\ lifecycle = "running"
    /\ startPolling
    /\ UNCHANGED <<lifecycle, boostTimeout, previousTemperature, snapshotFields,
                   hostState, liveTimeouts, inflight, nPolls, nCommands,
                   lastDuration, beforeOverride, restorations, nSuccess, retrieved, lastSnapshot, lastPoll, lastCommand>>
    /\ UNCHANGED <<boilerLog, authVars, clientVars>>

(***************************************************************************)
(* AtagOneDevice: the capability listener and the flow actions             *)
(***************************************************************************)

\* The temperatures the user and the flows ask for.
CommandTemps == {213, 300}

\* A command up to its await: the update request is in flight.
commandStarts(kind, seq, timer, temperature) ==
    inflight' = inflight \cup {Invocation(kind, seq, timer, temperature)}

CommandRecord(q, net) ==
    LET result == setTargetTemperature(net)
    IN  [seq |-> q.seq, kind |-> q.kind, net |-> net, ok |-> result.ok,
         err |-> result.err, sent |-> ClampedTemp(q.temperature)]

\* setCapabilityValue('target_temperature', value)
targetShown(value) ==
    capabilities' = [capabilities EXCEPT !.target_temperature = value]

\* The target_temperature capability listener is called with value v.
TargetTemperatureListener(v) ==
    /\ lifecycle = "running"
    /\ nCommands' = nCommands + 1
    /\ commandStarts("listener", nCommands + 1, Undef, v)
    /\ UNCHANGED <<deviceFields, snapshotFields, hostState, liveIntervals,
                   liveTimeouts, nextTimer, nPolls, history>>
    /\ UNCHANGED <<boilerLog, authVars, clientVars>>

\* The listener from the settling of its request on: it logs, and rethrows.
TargetTemperatureListenerSettles(q, net) ==
    /\ q \in inflight
    /\ q.kind = "listener"
    /\ inflight' = inflight \ {q}
    /\ lastCommand' = CommandRecord(q, net)
    /\ UNCHANGED <<deviceFields, snapshotFields, hostState, liveIntervals,
                   liveTimeouts, counters, cancelledIntervals, lastDuration, beforeOverride,
                   restorations, nSuccess, retrieved, lastSnapshot, lastPoll>>
    /\ UNCHANGED <<boilerLog, authVars, clientVars>>

\* The set_temperature flow action runs with args.temperature = v.
SetTemperatureAction(v) ==
    /\ lifecycle = "running"
    /\ nCommands' = nCommands + 1
    /\ commandStarts("set_temperature", nCommands + 1, Undef, v)
    /\ UNCHANGED <<deviceFields, snapshotFields, hostState, liveIntervals,
                   liveTimeouts, nextTimer, nPolls, history>>
    /\ UNCHANGED <<boilerLog, authVars, clientVars>>

SetTemperatureActionSettles(q, net) ==
    /\ q \in inflight
    /\ q.kind = "set_temperature"
    /\ inflight' = inflight \ {q}
    /\ lastCommand' = CommandRecord(q, net)
    /\ IF setTargetTemperature(net).ok
       THEN targetShown(q.temperature)
       ELSE UNCHANGED capabilities
    /\ UNCHANGED <<deviceFields, snapshotFields, available, unavailableMessage,
                   liveIntervals, liveTimeouts, counters, cancelledIntervals,
                   lastDuration, beforeOverride, restorations, nSuccess, retrieved, lastSnapshot, lastPoll>>
    /\ UNCHANGED <<boilerLog, authVars, clientVars>>

\* The set_temperature_duration flow action runs with args.temperature = v:
\* the shown target temperature is kept for the restoration.  beforeOverride
\* keeps the target shown at the invocation that found no restoration pending.
SetTemperatureDurationAction(v) ==
    /\ lifecycle = "running"
    /\ nCommands' = nCommands + 1
    /\ previousTemperature' = capabilities.target_temperature
    /\ commandStarts("set_temperature_duration", nCommands + 1, Undef, v)
    /\ lastDuration' = nCommands + 1
    /\ beforeOverride' =
           IF boostTimeout \in liveTimeouts THEN beforeOverride
           ELSE capabilities.target_temperature
    /\ UNCHANGED <<lifecycle, pollInterval, boostTimeout, snapshotFields,
                   hostState, liveIntervals, liveTimeouts, nextTimer, nPolls,
                   cancelledIntervals, restorations, nSuccess, retrieved, lastSnapshot, lastPoll,
                   lastCommand>>
    /\ UNCHANGED <<boilerLog, authVars, clientVars>>

\* clearTimeout(handle) on the runtime's timeouts.
clearTimeout(live, handle) == live \ {handle}

\* if (this.boostTimeout) clearTimeout(this.boostTimeout)
ClearedTimeouts ==
    IF boostTimeout # Undef THEN clearTimeout(liveTimeouts, boostTimeout)
    ELSE liveTimeouts

\* The action from the settling of its request on: the value is shown, the
\* pending timeout is cleared and the new one is set.  The timeout set by
\* invocation q has q.seq as its handle.
SetTemperatureDurationActionSettles(q, net) ==
    /\ q \in inflight
    /\ q.kind = "set_temperature_duration"
    /\ inflight' = inflight \ {q}
    /\ lastCommand' = CommandRecord(q, net)
    /\ IF setTargetTemperature(net).ok
       THEN /\ targetShown(q.temperature)
            /\ liveTimeouts' = ClearedTimeouts \cup {q.seq}
            /\ boostTimeout' = q.seq
       ELSE UNCHANGED <<capabilities, liveTimeouts, boostTimeout>>
    /\ UNCHANGED <<lifecycle, pollInterval, previousTemperature, snapshotFields,
                   available, unavailableMessage, liveIntervals, counters,
                   cancelledIntervals, lastDuration, beforeOverride, restorations, nSuccess,
                   retrieved, lastSnapshot, lastPoll>>
    /\ UNCHANGED <<boilerLog, authVars, clientVars>>

\* The callback of the boost timeout: the restoration.
BoostTimeoutFires(h) ==
    /\ h \in liveTimeouts
    /\ liveTimeouts' = liveTimeouts \ {h}
    /\ IF previousTemperature # Undef
       THEN /\ commandStarts("restore", h, h, previousTemperature)
            /\ restorations' =
                   restorations \cup {[timeout |-> h, latest |-> lastDuration]}
       ELSE UNCHANGED <<inflight, restorations>>
    /\ UNCHANGED <<deviceFields, snapshotFields, hostState, liveIntervals,
                   nextTimer, nPolls, nCommands, cancelledIntervals, lastDuration, beforeOverride,
                   nSuccess, retrieved, lastSnapshot, lastPoll, lastCommand>>
    /\ UNCHANGED <<boilerLog, authVars, clientVars>>

\* The restoration from the settling of its request on.
RestorationSettles(q, net) ==
    /\ q \in inflight
    /\ q.kind = "restore"
    /\ inflight' = inflight \ {q}
    /\ lastCommand' = CommandRecord(q, net)
    /\ IF setTargetTemperature(net).ok
       THEN targetShown(previousTemperature)
       ELSE UNCHANGED capabilities
    /\ UNCHANGED <<deviceFields, snapshotFields, available, unavailableMessage,
                   liveIntervals, liveTimeouts, counters, cancelledIntervals,
                   lastDuration, beforeOverride, restorations, nSuccess, retrieved, lastSnapshot, lastPoll>>
    /\ UNCHANGED <<boilerLog, authVars, clientVars>>

\* onDeleted: stopPolling(), and the boost timeout is cleared.
onDeleted ==
    /\ lifecycle = "running"
    /\ lifecycle' = "deleted"
    /\ stopPolling
    /\ liveTimeouts' = ClearedTimeouts
    /\ UNCHANGED <<boostTimeout, previousTemperature, snapshotFields, hostState,
                   inflight, counters, lastDuration, beforeOverride, restorations, nSuccess,
                   retrieved, lastSnapshot, lastPoll, lastCommand>>
    /\ UNCHANGED <<boilerLog, authVars, clientVars>>

(***************************************************************************)
(* The device: its next-state relations                                    *)
(***************************************************************************)

Granted(r, t, p, b) == NetJson(Body(TRUE, GRANTED, r, t, p, b))

\* Replies whose snapshot differs from the snapshot (20.0, 18.0, 1.2 bar, idle)
\* in at most one field, and the reply that carries no field at all.
SnapshotReplies ==
    {Granted(r, 180, 12, 0) : r \in RoomTemps} \cup
    {Granted(200, t, 12, 0) : t \in TargetTemps} \cup
    {Granted(200, 180, p, 0) : p \in Pressures} \cup
    {Granted(200, 180, 12, b) : b \in BoilerStatuses} \cup
    {Granted(Undef, Undef, Undef, Undef)}

\* Replies that differ in acc_status only, and the reply without its key.
AccReplies ==
    {NetJson(NoBody)} \cup
    {NetJson(Body(TRUE, a, 200, 180, 12, 0)) : a \in AccValues}

\* The replies to the retrieve requests of the poller under SpecPoller.
PollerReplies == TransportFailures \cup AccReplies \cup SnapshotReplies

\* The replies to the retrieve requests of the poller under Spec.
DeviceReplies ==
    {NetError, NetTimeout, NetJson(Body(TRUE, DENIED, 215, 195, 15, 8)),
     Granted(200, 180, 12, 0), Granted(215, 195, 15, 8)}

\* The replies to the update requests.
UpdateReplies == TransportFailures \cup StatusReplies

\* The replies to the update requests under Spec.
DeviceUpdateReplies ==
    {NetError, NetJson(Body(TRUE, DENIED, Undef, Undef, Undef, Undef)),
     NetJson(Body(TRUE, GRANTED, Undef, Undef, Undef, Undef))}

\* The device with all its handlers.
Next ==
    \/ onInit
    \/ (nextTimer <= MaxTimers /\ onSettingsPollInterval)
    \/ onDeleted
    \/ \E h \in liveIntervals : nPolls < MaxPolls /\ IntervalFires(h)
    \/ \E q \in inflight, net \in DeviceReplies :
           pollDataSettles(q, net) /\ UNCHANGED boilerLog
    \/ \E v \in CommandTemps :
           nCommands < MaxCommands /\ TargetTemperatureListener(v)
    \/ \E v \in CommandTemps : nCommands < MaxCommands /\ SetTemperatureAction(v)
    \/ \E v \in CommandTemps :
           nCommands < MaxCommands /\ SetTemperatureDurationAction(v)
    \/ \E q \in inflight, net \in DeviceUpdateReplies :
           TargetTemperatureListenerSettles(q, net)
    \/ \E q \in inflight, net \in DeviceUpdateReplies :
           SetTemperatureActionSettles(q, net)
    \/ \E q \in inflight, net \in DeviceUpdateReplies :
           SetTemperatureDurationActionSettles(q, net)
    \/ \E h \in liveTimeouts : BoostTimeoutFires(h)
    \/ \E q \in inflight, net \in DeviceUpdateReplies : RestorationSettles(q, net)

Spec == Init /\ [][Next]_vars

\* The replies to the retrieve requests under SpecLifecycle.
LifecycleReplies ==
    TransportFailures \cup
    {NetJson(NoBody), NetJson(Body(TRUE, DENIED, 200, 180, 12, 0)),
     NetJson(Body(TRUE, PENDING, 200, 180, 12, 0)), Granted(200, 180, 12, 0)}

\* The life of the poller: onInit, the poll_interval setting, onDeleted, the
\* interval timers and the cycles they start.
NextLifecycle ==
    \/ onInit
    \/ (nextTimer <= LifecycleMaxTimers /\ onSettingsPollInterval)
    \/ onDeleted
    \/ \E h \in liveIntervals : nPolls < LifecycleMaxPolls /\ IntervalFires(h)
    \/ \E q \in inflight, net \in LifecycleReplies :
           pollDataSettles(q, net) /\ UNCHANGED boilerLog

SpecLifecycle == Init /\ [][NextLifecycle]_vars

\* The replies to the update requests under SpecPoller.
PollerUpdateReplies ==
    {NetError, NetJson(Body(TRUE, GRANTED, Undef, Undef, Undef, Undef))}

\* The poller and the set_temperature action, over the poller's replies.
NextPoller ==
    \/ onInit
    \/ \E h \in liveIntervals : nPolls < PollerMaxPolls /\ IntervalFires(h)
    \/ \E q \in inflight, net \in PollerReplies :
           pollDataSettles(q, net) /\ UNCHANGED boilerLog
    \/ nCommands < PollerMaxCommands /\ SetTemperatureAction(213)
    \/ \E q \in inflight, net \in PollerUpdateReplies :
           SetTemperatureActionSettles(q, net)

SpecPoller == Init /\ [][NextPoller]_vars

\* The replies to the retrieve requests under SpecStatus: the failures, every
\* acc_status, and a snapshot.
StatusPollReplies ==
    TransportFailures \cup AccReplies \cup {Granted(215, 195, 15, 8)}

\* The poller, the capability listener and the set_temperature action, over
\* every acc_status of the retrieve and update replies.
NextStatus ==
    \/ onInit
    \/ \E h \in liveIntervals : nPolls < StatusMaxPolls /\ IntervalFires(h)
    \/ \E q \in inflight, net \in StatusPollReplies :
           pollDataSettles(q, net) /\ UNCHANGED boilerLog
    \/ nCommands < StatusMaxCommands /\ TargetTemperatureListener(213)
    \/ nCommands < StatusMaxCommands /\ SetTemperatureAction(213)
    \/ \E q \in inflight, net \in UpdateReplies :
           TargetTemperatureListenerSettles(q, net)
    \/ \E q \in inflight, net \in UpdateReplies :
           SetTemperatureActionSettles(q, net)

SpecStatus == Init /\ [][NextStatus]_vars

\* The replies that differ in boiler_status only, and two failures.
BoilerReplies ==
    {NetError, NetJson(Body(TRUE, DENIED, 200, 180, 12, 8))} \cup
    {Granted(200, 180, 12, b) : b \in {Undef, 0, 4, 8, 12}}

\* The log of the boiler flags and triggers over a step that settles a poll.
boilerLogged ==
    LET cards == [i \in DOMAIN lastPoll'.events |-> lastPoll'.events[i].card]
    IN  /\ boilerFlags' =
               IF lastPoll'.ok
               THEN Append(boilerFlags, lastPoll'.data.boilerHeating)
               ELSE boilerFlags
        /\ boilerEvents' =
               boilerEvents \o
                   SelectSeq(cards,
                             LAMBDA c : c \in {"boiler_started", "boiler_stopped"})

\* The poller over the boiler's replies, with the log kept.
NextBoiler ==
    \/ onInit
    \/ \E h \in liveIntervals : nPolls < BoilerMaxPolls /\ IntervalFires(h)
    \/ \E q \in inflight, net \in BoilerReplies :
           pollDataSettles(q, net) /\ boilerLogged

SpecBoiler == Init /\ [][NextBoiler]_vars

\* The initial poll, which shows a target of 18.0, and the
\* set_temperature_duration action with its timeout and its restoration.
NextOverride ==
    \/ onInit
    \/ \E q \in inflight :
           pollDataSettles(q, Granted(200, 180, 12, 0)) /\ UNCHANGED boilerLog
    \/ \E v \in CommandTemps :
           nCommands < OverrideMaxCommands /\ SetTemperatureDurationAction(v)
    \/ \E q \in inflight, net \in PollerUpdateReplies :
           SetTemperatureDurationActionSettles(q, net)
    \/ \E h \in liveTimeouts : BoostTimeoutFires(h)
    \/ \E q \in inflight, net \in PollerUpdateReplies :
           RestorationSettles(q, net)

SpecOverride == Init /\ [][NextOverride]_vars

\* The replies that carry every boiler_status up to MaxBoilerStatus or none,
\* and a failure.
FlagsReplies ==
    {NetError} \cup
    {Granted(200, 180, 12, b) : b \in {Undef} \cup 0..MaxBoilerStatus}

\* The poller over these replies.
NextFlags ==
    \/ onInit
    \/ \E h \in liveIntervals : nPolls < FlagsMaxPolls /\ IntervalFires(h)
    \/ \E q \in inflight, net \in FlagsReplies :
           pollDataSettles(q, net) /\ UNCHANGED boilerLog

SpecFlags == Init /\ [][NextFlags]_vars

(***************************************************************************)
(* AtagOneApi.waitForAuthorization                                         *)
(***************************************************************************)

\* The replies to the pair requests.
PairReplies == TransportFailures \cup StatusReplies

\* A loop that returns on GRANTED only.
authTerminatesOnGranted(status) == status = GRANTED

\* The statuses on which the loop returns.
authTerminates(status) == status = GRANTED \/ status = DENIED

\* A loop test that lets one attempt too many through.
loopTestOneMore(i) ==
    IF i <= maxAttempts'
    THEN /\ authPc' = "pairing"
         /\ pairRequests' = pairRequests + 1
         /\ authError' = authError
    ELSE /\ authPc' = "thrown"
         /\ authError' = ErrAuthTimeout
         /\ pairRequests' = pairRequests

\* The loop test and what follows it: the next pair request, or the throw.
loopTest(i) ==
    IF i < maxAttempts'
    THEN /\ authPc' = "pairing"
         /\ pairRequests' = pairRequests + 1
         /\ authError' = authError
    ELSE /\ authPc' = "thrown"
         /\ authError' = ErrAuthTimeout
         /\ pairRequests' = pairRequests

\* waitForAuthorization(m, intervalMs, onStatus?) is called.
waitForAuthorization(m, withObserver) ==
    /\ authPc = "idle"
    /\ maxAttempts' = m
    /\ hasObserver' = withObserver
    /\ attempt' = 0
    /\ loopTest(0)
    /\ UNCHANGED <<authResult, sleeps, statuses, observed, lastPair>>
    /\ UNCHANGED <<deviceVars, boilerLog, clientVars>>

\* An observer that is told the intermediate statuses only.
onStatusIntermediate(status) ==
    IF hasObserver /\ status \notin {GRANTED, DENIED}
    THEN Append(observed, status)
    ELSE observed

\* if (onStatus) onStatus(status): what the observer has seen after it.
onStatus(status) ==
    IF hasObserver THEN Append(observed, status) ELSE observed

\* A loop that catches the error of an attempt and goes on to the next one.
pairFailedRetried(err) ==
    /\ IF pairRequests < maxAttempts
       THEN authPc' = "pairing" /\ pairRequests' = pairRequests + 1
            /\ authError' = authError
       ELSE authPc' = "thrown" /\ authError' = err
            /\ pairRequests' = pairRequests
    /\ UNCHANGED <<authResult, sleeps, statuses, observed>>

\* await this.pair() throws: nothing catches it, waitForAuthorization throws.
pairFailed(err) ==
    /\ authPc' = "thrown"
    /\ authError' = err
    /\ UNCHANGED <<authResult, sleeps, statuses, observed, pairRequests>>

\* await this.pair() settles: the throw, or the observer and then the two
\* returns or the sleep.
pairSettles(net) ==
    LET result == pair(net)
    IN  /\ authPc = "pairing"
        /\ lastPair' = [seq |-> pairRequests, net |-> net, ok |-> result.ok,
                        err |-> result.err, status |-> result.status]
        /\ IF ~result.ok
           THEN pairFailed(result.err)
           ELSE /\ statuses' = Append(statuses, result.status)
                /\ observed' = onStatus(result.status)
                /\ IF authTerminates(result.status)
                   THEN /\ authPc' = "returned"
                        /\ authResult' = result.status
                        /\ UNCHANGED sleeps
                   ELSE /\ authPc' = "sleeping"
                        /\ sleeps' = sleeps + 1
                        /\ UNCHANGED authResult
                /\ UNCHANGED <<authError, pairRequests>>
        /\ UNCHANGED <<maxAttempts, hasObserver, attempt>>
        /\ UNCHANGED <<deviceVars, boilerLog, clientVars>>

\* The sleep ends: attempt++, and the loop test.
sleepEnds ==
    /\ authPc = "sleeping"
    /\ attempt' = attempt + 1
    /\ UNCHANGED maxAttempts
    /\ loopTest(attempt + 1)
    /\ UNCHANGED <<hasObserver, authResult, sleeps, statuses, observed,
                   lastPair>>
    /\ UNCHANGED <<deviceVars, boilerLog, clientVars>>

NextAuth ==
    \/ \E m \in 0..MaxMaxAttempts, withObserver \in BOOLEAN :
           waitForAuthorization(m, withObserver)
    \/ \E net \in PairReplies : pairSettles(net)
    \/ sleepEnds

SpecAuth == Init /\ [][NextAuth]_vars

\* Every request is resolved or rejected (the latest when its timeout fires),
\* and every sleep ends when its timer fires.
AuthFairness ==
    /\ WF_vars(\E net \in PairReplies : pairSettles(net))
    /\ WF_vars(sleepEnds)

SpecAuthFair == SpecAuth /\ AuthFairness

(***************************************************************************)
(* AtagOneApi: the calls of a client, each with the reply to its request   *)
(***************************************************************************)

\* The replies to the requests of the client's calls.
ClientReplies == PollerReplies \cup StatusReplies

Call(op, info, net) ==
    [NoCall EXCEPT !.op = op, !.info = info, !.net = net]

\* testConnection(): retrieve(MessageInfo.STATUS) in a try that catches all.
TestConnectionCall(net) ==
    /\ lastCall' = [Call("testConnection", STATUS, net) EXCEPT
                       !.bool = testConnection(net)]
    /\ UNCHANGED <<deviceVars, boilerLog, authVars, connectionSettings, settings>>

\* pair()
PairCall(net) ==
    LET result == pair(net)
    IN  /\ lastCall' = [Call("pair", Undef, net) EXCEPT
                           !.threw = ~result.ok, !.err = result.err,
                           !.status = result.status]
        /\ UNCHANGED <<deviceVars, boilerLog, authVars, connectionSettings, settings>>

\* getData(): retrieve() with its default flags, CONTROL | REPORT.
GetDataCall(net) ==
    LET result == getData(net)
    IN  /\ lastCall' = [Call("getData", CONTROL + REPORT, net) EXCEPT
                           !.threw = ~result.ok, !.err = result.err]
        /\ UNCHANGED <<deviceVars, boilerLog, authVars, connectionSettings, settings>>

\* setTargetTemperature(c), c in hundredths of a degree
SetTargetTemperatureCall(t, net) ==
    LET result == setTargetTemperature(net)
    IN  /\ lastCall' = [Call("setTargetTemperature", Undef, net) EXCEPT
                           !.threw = ~result.ok, !.err = result.err,
                           !.temperature = t, !.sent = ClampedTempFine(t)]
        /\ UNCHANGED <<deviceVars, boilerLog, authVars, connectionSettings, settings>>

NextClient ==
    \/ \E net \in ClientReplies : TestConnectionCall(net)
    \/ \E net \in ClientReplies : PairCall(net)
    \/ \E net \in ClientReplies : GetDataCall(net)
    \/ \E t \in CommandTemps, net \in ClientReplies :
           SetTargetTemperatureCall(10 * t, net)

SpecClient == Init /\ [][NextClient]_vars

\* Every temperature to a hundredth of a degree from -3 to 31 degrees.
FineTemps == (0 - MaxBelowZero)..MaxFineTemp

\* The replies to the update requests under SpecTemperature.
TemperatureReplies ==
    {NetTimeout, NetJson(Body(TRUE, GRANTED, Undef, Undef, Undef, Undef))}

\* One call of a new client: what is sent depends on the argument only.
NextTemperature ==
    \E t \in FineTemps, net \in TemperatureReplies :
        lastCall = NoCall /\ SetTargetTemperatureCall(t, net)

SpecTemperature == Init /\ [][NextTemperature]_vars

\* if (settings.x): the field is present and its value is not the empty
\* string, which is "" or, for a string kept as its characters, <<>>.
Truthy(present, value, empty) == present /\ value # empty

\* updateSettings(partial): the assignments to the client's fields.
updateSettings(partial) ==
    /\ ipAddress' =
           IF Truthy(partial.hasIpAddress, partial.ipAddress, "")
           THEN partial.ipAddress ELSE ipAddress
    /\ macAddress' =
           IF Truthy(partial.hasMacAddress, partial.macAddress, <<>>)
           THEN normalizeMacAddress(partial.macAddress) ELSE macAddress
    /\ deviceName' =
           IF Truthy(partial.hasDeviceName, partial.deviceName, "")
           THEN partial.deviceName ELSE deviceName
    /\ email' =
           IF Truthy(partial.hasEmail, partial.email, "")
           THEN partial.email ELSE email

\* A call of updateSettings(partial) on a client.
UpdateSettingsCall(partial) ==
    /\ updateSettings(partial)
    /\ lastCall' = [NoCall EXCEPT
                       !.op = "updateSettings", !.partial = partial,
                       !.before = Settings(ipAddress, macAddress, deviceName,
                                           email)]
    /\ UNCHANGED <<deviceVars, boilerLog, authVars, settings>>

\* The values the settings are updated with.
IpAddresses == {"", "10.0.0.9"}
MacAddresses == {<<>>, <<"a", "-", "1">>, <<"B", ":", "0">>}
DeviceNames == {"", "Thermostat"}
Emails == {"", "me@example.com"}

\* A field that is absent has no value.
Partials ==
    {partial \in [hasIpAddress : BOOLEAN, ipAddress : IpAddresses,
                  hasMacAddress : BOOLEAN, macAddress : MacAddresses,
                  hasDeviceName : BOOLEAN, deviceName : DeviceNames,
                  hasEmail : BOOLEAN, email : Emails] :
        /\ ~partial.hasIpAddress => partial.ipAddress = ""
        /\ ~partial.hasMacAddress => partial.macAddress = <<>>
        /\ ~partial.hasDeviceName => partial.deviceName = ""
        /\ ~partial.hasEmail => partial.email = ""}

\* The device's settings the user can set to.
HostSettings ==
    [ip_address : IpAddresses \cup {"10.0.0.2"},
     mac_address : {<<"a", "b", ":", "0", "1">>, <<"B", ":", "0">>},
     device_name : DeviceNames \cup {"Homey"},
     email : Emails \cup {"user@example.com"}]

\* onSettings({ newSettings, changedKeys }) with a connection setting among
\* the changed keys and poll_interval not among them: the host stores
\* newSettings when the handler has returned.
onSettings(newSettings) ==
    LET changedKeys ==
            {key \in DOMAIN newSettings : newSettings[key] # settings[key]}
        partial ==
            Partial(TRUE, newSettings.ip_address, FALSE, <<>>,
                    TRUE, newSettings.device_name, TRUE, newSettings.email)
        called == changedKeys \cap {"ip_address", "device_name", "email"} # {}
    IN  /\ lifecycle = "running"
        /\ changedKeys # {}
        /\ IF called THEN updateSettings(partial)
                     ELSE UNCHANGED connectionSettings
        /\ settings' = newSettings
        /\ lastCall' = [NoCall EXCEPT
                           !.op = "onSettings",
                           !.partial = IF called THEN partial ELSE NoPartial,
                           !.before = Settings(ipAddress, macAddress,
                                               deviceName, email)]
        /\ UNCHANGED <<deviceVars, boilerLog, authVars>>

\* The device initialized, and its connection settings changed by the user.
NextOnSettings ==
    \/ onInit
    \/ \E newSettings \in HostSettings : onSettings(newSettings)

SpecOnSettings == Init /\ [][NextOnSettings]_vars

\* The identifiers of at most MaxMacLen characters, in both cases and with
\* both separators.
IdentifierChars == {"a", "A", "0", ":", "-"}
Identifiers == UNION {[1..n -> IdentifierChars] : n \in 0..MaxMacLen}

\* updateSettings({ macAddress: mac }) for every such identifier.
NextIdentifier ==
    \E mac \in Identifiers :
        UpdateSettingsCall([NoPartial EXCEPT
                               !.hasMacAddress = TRUE, !.macAddress = mac])

SpecIdentifier == Init /\ [][NextIdentifier]_vars

NextSettings == \E partial \in Partials : UpdateSettingsCall(partial)

SpecSettings == Init /\ [][NextSettings]_vars

(***************************************************************************)
(* Properties                                                              *)
(***************************************************************************)

\* The poll cycle completed last dispatched the trigger `card`.
CardDispatched(card) ==
    \E i \in DOMAIN lastPoll.events : lastPoll.events[i].card = card

\* The poll cycle completed last dispatched the trigger `card` with `value`.
Dispatched(card, value) ==
    \E i \in DOMAIN lastPoll.events : lastPoll.events[i] = Trigger(card, value)

PollCompleted == lastPoll.seq # Undef

\* C1: at most one request of the device's client is outstanding at any time.
C1_AtMostOneOutstanding == Cardinality(inflight) <= 1

\* C2: a stopped poller starts no further cycle.  An interval timer starts a
\* cycle only while it is the poller's current timer and has not been cleared;
\* a cycle that completes leaves the timers as they are; and the only timer
\* alive after any step is the one the poller holds.
C2_StoppedPollerStartsNoCycle ==
    [][/\ \A q \in inflight' \ inflight :
              (q.kind = "poll" /\ q.timer # Undef) =>
                  /\ q.timer \notin cancelledIntervals
                  /\ q.timer = pollInterval
       /\ (\E q \in inflight \ inflight' : q.kind = "poll") =>
              /\ liveIntervals' = liveIntervals
              /\ pollInterval' = pollInterval
       /\ liveIntervals' \subseteq {pollInterval'}]_vars

\* A cycle is in flight whose timer has been cleared since, and the poller has
\* been restarted with a new timer.
C2_CycleInFlightAcrossRestart ==
    /\ pollInterval # Undef
    /\ pollInterval \notin cancelledIntervals
    /\ \E q \in inflight : q.kind = "poll" /\ q.timer \in cancelledIntervals

\* C3: only the most recently scheduled restoration is honored.  Every
\* restoration that executes belongs to the set_temperature_duration invocation
\* that was the latest one when its timeout fired.
C3_OnlyLatestRestorationRuns ==
    \A r \in restorations : r.timeout = r.latest

\* C4: the first successful poll cycle dispatches no trigger.
C4_FirstCycleEmitsNothing ==
    (lastPoll.ok /\ lastPoll.rank = 1) => lastPoll.events = <<>>

\* The first successful cycle came with a full snapshot, after a failed cycle.
C4_FirstCycleWithValues ==
    /\ lastPoll.ok
    /\ lastPoll.rank = 1
    /\ lastPoll.seq > 1
    /\ lastPoll.data.roomTemperature = 215
    /\ lastPoll.data.targetTemperature = 180
    /\ lastPoll.data.waterPressure = 12

DispatchedIffDiffers(card, new, old) ==
    /\ CardDispatched(card) <=> new # old
    /\ CardDispatched(card) => Dispatched(card, new)

DispatchedIffChanged(card, new, old) ==
    /\ CardDispatched(card) <=> (new # Undef /\ old # Undef /\ new # old)
    /\ CardDispatched(card) => Dispatched(card, new)

BoilerStep(before, after) ==
    IF ~before /\ after THEN <<"boiler_started">>
    ELSE IF before /\ ~after THEN <<"boiler_stopped">>
    ELSE <<>>

\* The boiler triggers of a sequence of flags.
RECURSIVE BoilerTransitions(_)
BoilerTransitions(flags) ==
    IF Len(flags) < 2 THEN <<>>
    ELSE BoilerTransitions(SubSeq(flags, 1, Len(flags) - 1)) \o
         BoilerStep(flags[Len(flags) - 1], flags[Len(flags)])

\* C7: the boiler triggers dispatched are exactly the transitions of the
\* boiler-heating flag between consecutive snapshots, in order.
C7_BoilerEventsAreTransitions ==
    boilerEvents = BoilerTransitions(boilerFlags)

\* The flags false, true, true, false have been retrieved.
C7_FalseTrueTrueFalse ==
    /\ boilerFlags = <<FALSE, TRUE, TRUE, FALSE>>
    /\ boilerEvents = <<"boiler_started", "boiler_stopped">>

\* C8: a cycle whose getData fails dispatches no trigger and leaves the
\* previous values as they were; the previous values are at all times the
\* values retrieved last.
C8_FailedCycleLeavesPrevious ==
    /\ (PollCompleted /\ ~lastPoll.ok) =>
           /\ lastPoll.events = <<>>
           /\ Previous = lastPoll.before
    /\ Previous = retrieved

\* A cycle timed out after a snapshot had been retrieved.
C8_TimeoutAfterSnapshot ==
    /\ PollCompleted
    /\ ~lastPoll.ok
    /\ lastPoll.err = ErrTimeout
    /\ lastPoll.before.room = 200
    /\ lastPoll.before.boiler = <<TRUE>>

\* The outcome of a call is right for the reply's acc_status.
AuthOutcome(acc, call) ==
    /\ acc = DENIED => ~call.ok /\ call.err = ErrDenied
    /\ acc = PENDING => ~call.ok /\ call.err = ErrPending
    /\ acc \notin {DENIED, PENDING} => call.ok

\* C9: getData and setTargetTemperature fail with the denied error on DENIED
\* and with the pending error on PENDING, two errors distinct from each other
\* and from the transport errors, and succeed on any other acc_status of a
\* reply that has its key; a DENIED reply leaves the previous values.
C9_AuthorizationErrors ==
    /\ ErrDenied # ErrPending
    /\ {ErrDenied, ErrPending} \cap TransportErrors = {}
    /\ (PollCompleted /\ lastPoll.net.net = "json" /\ lastPoll.net.body.has_reply) =>
           /\ AuthOutcome(lastPoll.net.body.acc_status, lastPoll)
           /\ lastPoll.ok =>
                  /\ lastPoll.data.roomTemperature = lastPoll.net.body.room_temp
                  /\ lastPoll.data.targetTemperature = lastPoll.net.body.ch_mode_temp
                  /\ lastPoll.data.waterPressure = lastPoll.net.body.ch_water_pres
           /\ lastPoll.err = ErrDenied => Previous = lastPoll.before
    /\ (PollCompleted /\ lastPoll.net.net # "json") =>
           ~lastPoll.ok /\ lastPoll.err \in TransportErrors
    /\ (lastCommand.seq # Undef /\ lastCommand.net.net = "json"
            /\ lastCommand.net.body.has_reply) =>
           AuthOutcome(lastCommand.net.body.acc_status, lastCommand)
    /\ (lastCommand.seq # Undef /\ lastCommand.net.net # "json") =>
           ~lastCommand.ok /\ lastCommand.err \in TransportErrors

\* A retrieve reply was DENIED after a snapshot had been retrieved, and an
\* update reply was PENDING.
C9_DeniedPollPendingUpdate ==
    /\ PollCompleted
    /\ lastPoll.err = ErrDenied
    /\ lastPoll.before.room = 215
    /\ lastCommand.err = ErrPending

\* C10: waitForAuthorization returns on the first GRANTED or DENIED: when it
\* has returned, at attempt k, the status returned is the k-th, no earlier
\* status is GRANTED or DENIED, k pair requests and k - 1 sleeps were made and
\* k <= maxAttempts; and once a status is GRANTED or DENIED it has returned.
C10_ReturnsOnFirstTerminalStatus ==
    LET k == Len(statuses)
    IN  /\ authPc = "returned" =>
               /\ k >= 1
               /\ k <= maxAttempts
               /\ authResult = statuses[k]
               /\ authResult \in {GRANTED, DENIED}
               /\ \A i \in 1..(k - 1) : statuses[i] \notin {GRANTED, DENIED}
               /\ pairRequests = k
               /\ sleeps = k - 1
        /\ (k >= 1 /\ statuses[k] \in {GRANTED, DENIED}) => authPc = "returned"
        /\ (statuses = <<PENDING, PENDING, GRANTED>> /\ maxAttempts = 5) =>
               /\ authResult = GRANTED
               /\ pairRequests = 3
               /\ sleeps = 2

\* PENDING, PENDING, GRANTED with maxAttempts = 5.
C10_PendingPendingGranted ==
    /\ statuses = <<PENDING, PENDING, GRANTED>>
    /\ maxAttempts = 5
    /\ authPc = "returned"

\* The call has ended, by a return or by a throw.
AuthEnded == authPc \in {"returned", "thrown"}

\* Every status the device returned so far is PENDING or NOT_AVAILABLE.
AllStatusesOpen ==
    \A i \in DOMAIN statuses : statuses[i] \in {PENDING, NOT_AVAILABLE}

\* C11: waitForAuthorization always terminates; it never makes more than
\* maxAttempts pair requests; it fails with the authorization timeout exactly
\* when all maxAttempts attempts returned PENDING or NOT_AVAILABLE, after
\* exactly maxAttempts pair requests, and makes no request after it ended.
C11_TimeoutAfterMaxAttempts ==
    /\ [](pairRequests <= maxAttempts)
    /\ []((authPc = "thrown" /\ authError = ErrAuthTimeout) =>
              /\ pairRequests = maxAttempts
              /\ Len(statuses) = maxAttempts
              /\ AllStatusesOpen)
    /\ []((AuthEnded /\ Len(statuses) = maxAttempts /\ AllStatusesOpen) =>
              (authPc = "thrown" /\ authError = ErrAuthTimeout))
    /\ [][AuthEnded => pairRequests' = pairRequests]_vars
    /\ (authPc # "idle") ~> AuthEnded

\* All-PENDING with maxAttempts = 3 has failed after 3 attempts.
C11_ThreeTimesPending ==
    /\ maxAttempts = 3
    /\ statuses = <<PENDING, PENDING, PENDING>>
    /\ authPc = "thrown"
    /\ authError = ErrAuthTimeout
    /\ pairRequests = 3

\* C12: waitForAuthorization sleeps only between consecutive attempts: a
\* sleep is always followed by another pair request, and on every path that
\* made a request, exhaustion of maxAttempts included, the number of sleeps
\* at the end is one less than the number of pair requests.
C12_SleepsOnlyBetweenAttempts ==
    /\ authPc = "sleeping" => attempt + 1 < maxAttempts
    /\ (AuthEnded /\ pairRequests >= 1) => sleeps = pairRequests - 1

\* C13: an observer passed to waitForAuthorization is called once per
\* completed pair attempt, in attempt order, with the attempt's status, before
\* the return or the sleep: whenever the call sleeps or has ended, what the
\* observer has seen is the sequence of the statuses the device returned,
\* the terminating one included; without observer nothing is seen.
C13_ObserverSeesEveryStatus ==
    /\ hasObserver => observed = statuses
    /\ ~hasObserver => observed = <<>>
    /\ authPc \in {"sleeping", "returned"} =>
           /\ Len(statuses) = pairRequests
           /\ hasObserver => Len(observed) = pairRequests

\* The observer has seen PENDING, NOT_AVAILABLE and the terminating DENIED.
C13_ObservedUpToDenied ==
    /\ hasObserver
    /\ authPc = "returned"
    /\ observed = <<PENDING, NOT_AVAILABLE, DENIED>>

\* The error request rejects with for a reply that is a transport failure.
TransportErrorOf(net) ==
    IF net.net = "error" THEN ErrConnection
    ELSE IF net.net = "timeout" THEN ErrTimeout
    ELSE ErrParse

\* C14: a transport failure in an attempt of waitForAuthorization ends the
\* call at once with that error, unmodified: no further pair request, no sleep
\* and no observer call for the failed attempt; and every pair request is
\* answered before the next one is issued, one request per pair call.
C14_TransportFailureAbortsLoop ==
    /\ [](lastPair.seq \in {pairRequests, pairRequests - 1})
    /\ []((lastPair.seq >= 1 /\ lastPair.net \in TransportFailures) =>
              /\ authPc = "thrown"
              /\ authError = TransportErrorOf(lastPair.net)
              /\ pairRequests = lastPair.seq
              /\ Len(statuses) = pairRequests - 1
              /\ sleeps = pairRequests - 1
              /\ hasObserver => Len(observed) = pairRequests - 1)
    /\ [][authPc = "thrown" => UNCHANGED authVars]_vars

\* The third attempt of a call with observer timed out.
C14_ThirdAttemptTimedOut ==
    /\ hasObserver
    /\ lastPair.seq = 3
    /\ lastPair.net = NetTimeout
    /\ authError = ErrTimeout
    /\ maxAttempts = 5

\* C15: the unavailability reason reported when a cycle fails on a DENIED
\* reply differs from the reason reported when a cycle fails on a connection
\* error or a timeout: when a cycle that failed on the network is followed by
\* a cycle that fails on DENIED, the reason reported changes.
C15_DeniedReasonDiffers ==
    [][(/\ PollCompleted
        /\ lastPoll.err \in {ErrConnection, ErrTimeout}
        /\ lastPoll'.seq # lastPoll.seq
        /\ lastPoll'.err = ErrDenied)
       => unavailableMessage' # unavailableMessage]_vars

\* The last cycle that completed failed with error e.
CycleFailedWith(e) == PollCompleted /\ ~lastPoll.ok /\ lastPoll.err = e

\* C16: no error of a poll cycle stops the recurring schedule: a cycle that
\* fails, with any error kind, reports the device unavailable, ends (pollData
\* catches the error) and leaves the interval timer as it is; as long as the
\* device is not deleted its current interval timer is live and can start
\* the next cycle.
C16_FailedCycleKeepsSchedule ==
    /\ []((PollCompleted /\ ~lastPoll.ok) =>
              (~available /\ unavailableMessage # ""))
    /\ [][(lastPoll'.seq # lastPoll.seq /\ ~lastPoll'.ok) =>
              /\ liveIntervals' = liveIntervals
              /\ pollInterval' = pollInterval
              /\ lifecycle' = lifecycle
              /\ inflight' \subseteq inflight
              /\ \A q \in inflight' : q.seq # lastPoll'.seq \/ q.kind # "poll"]_vars
    /\ [](lifecycle = "running" =>
              /\ pollInterval \in liveIntervals
              /\ ENABLED IntervalFires(pollInterval))

\* After a cycle failed on an unparseable body, the timer has started the
\* next cycle.
C16_CycleStartedAfterFailure ==
    /\ lifecycle = "running"
    /\ CycleFailedWith(ErrParse)
    /\ ~available
    /\ \E q \in inflight :
           q.kind = "poll" /\ q.seq > lastPoll.seq /\ q.timer = pollInterval

\* C17: testConnection never throws: its single retrieve asks for STATUS
\* only (16), it returns false when the request fails with a connection
\* error, a timeout or an unparseable body and true for every other reply;
\* pair, getData and setTargetTemperature throw on these failures.
C17_TestConnectionSwallowsErrors ==
    /\ STATUS = 16
    /\ lastCall.op = "testConnection" =>
           /\ ~lastCall.threw
           /\ lastCall.info = STATUS
           /\ lastCall.bool <=> lastCall.net \notin TransportFailures
    /\ (lastCall.op \in {"pair", "getData", "setTargetTemperature"}
            /\ lastCall.net \in TransportFailures) =>
           (lastCall.threw /\ lastCall.err = TransportErrorOf(lastCall.net))

\* testConnection has returned true on a reply whose acc_status is DENIED.
C17_TrueOnDeniedReply ==
    /\ lastCall.op = "testConnection"
    /\ lastCall.net = NetJson(Body(TRUE, DENIED, 200, 180, 12, 0))
    /\ lastCall.bool

\* The reply carries pair_reply.acc_status.
CarriesStatus(net) ==
    net.net = "json" /\ net.body.has_reply /\ net.body.acc_status # Undef

\* C18: pair returns the reply's acc_status (0 NOT_AVAILABLE, 1 PENDING,
\* 2 GRANTED, 3 DENIED) whenever the reply carries pair_reply.acc_status, the
\* value 0 included, and throws the invalid-reply error exactly when a
\* parseable reply lacks pair_reply or its acc_status; the status is the one
\* of this call's reply, whatever the calls before returned.
C18_PairReturnsReplyStatus ==
    /\ <<NOT_AVAILABLE, PENDING, GRANTED, DENIED>> = <<0, 1, 2, 3>>
    /\ lastCall.op = "pair" =>
           /\ CarriesStatus(lastCall.net) =>
                  (~lastCall.threw /\ lastCall.status = lastCall.net.body.acc_status)
           /\ (lastCall.threw /\ lastCall.err = ErrInvalidPair) <=>
                  (lastCall.net.net = "json" /\ ~CarriesStatus(lastCall.net))

\* pair has returned NOT_AVAILABLE for a reply with acc_status 0.
C18_ReturnsNotAvailable ==
    /\ lastCall.op = "pair"
    /\ lastCall.net.body.acc_status = 0
    /\ ~lastCall.threw
    /\ lastCall.status = NOT_AVAILABLE

\* C19: after updateSettings(partial) every field present in partial holds
\* the given value, the MAC address in normalized form, for every value of
\* the field, the empty string included, and every absent field is unchanged.
C19_UpdateSettingsMerges ==
    lastCall.op = "updateSettings" =>
        LET partial == lastCall.partial
            before == lastCall.before
        IN  /\ ipAddress =
                   IF partial.hasIpAddress THEN partial.ipAddress
                   ELSE before.ipAddress
            /\ macAddress =
                   IF partial.hasMacAddress
                   THEN normalizeMacAddress(partial.macAddress)
                   ELSE before.macAddress
            /\ deviceName =
                   IF partial.hasDeviceName THEN partial.deviceName
                   ELSE before.deviceName
            /\ email =
                   IF partial.hasEmail THEN partial.email ELSE before.email

\* The multiples of half a degree, in tenths of a degree.
HalfDegrees == {5 * k : k \in -10..70}

\* C20: for every temperature t the ch_mode_temp that setTargetTemperature
\* sends is max(4, min(27, r)), r the multiple of 0.5 nearest to t with ties
\* upwards (round(t * 2) / 2): it lies within [4, 27], is a multiple of 0.5,
\* and the transform applied to it gives it again.
C20_SentIsClampedAndRounded ==
    lastCall.op = "setTargetTemperature" =>
        LET c == lastCall.temperature
            sent == lastCall.sent
        IN  /\ sent \in HalfDegrees
            /\ MIN_TEMP <= sent /\ sent <= MAX_TEMP
            /\ \E r \in HalfDegrees :
                   /\ 10 * r - 25 <= c /\ c < 10 * r + 25
                   /\ sent = Max(MIN_TEMP, Min(MAX_TEMP, r))
            /\ ClampedTempFine(10 * sent) = sent
            /\ ClampedTemp(sent) = sent

\* 21.25 degrees, halfway between two steps, has been sent as 21.5.
C20_TieRoundsUp ==
    /\ lastCall.op = "setTargetTemperature"
    /\ lastCall.temperature = 2125
    /\ lastCall.sent = 215

\* An identifier without its separators and in lower case: two identifiers
\* differ only in letter case or separators exactly if these are equal.
ToLowerCase(c) == IF c = "A" THEN "a" ELSE c
Folded(mac) ==
    LET kept == SelectSeq(mac, LAMBDA c : c # ":" /\ c # "-")
    IN  [i \in DOMAIN kept |-> ToLowerCase(kept[i])]

\* No separator and no lower-case letter.
IsNormalForm(mac) ==
    \A i \in DOMAIN mac : mac[i] \notin {":", "-", "a", "b", "c", "d", "e", "f"}

\* C21: normalization is idempotent, identifiers that differ only in letter
\* case or separators normalize to the same string, and the identifier the
\* client holds (and sends in account_auth) is in normal form after the
\* construction and any sequence of updateSettings calls.
C21_IdentifierNormalized ==
    /\ IsNormalForm(macAddress)
    /\ normalizeMacAddress(macAddress) = macAddress
    /\ lastCall.op = "updateSettings" =>
           LET x == lastCall.partial.macAddress
           IN  /\ normalizeMacAddress(normalizeMacAddress(x)) =
                      normalizeMacAddress(x)
               /\ IsNormalForm(normalizeMacAddress(x))
               /\ x # <<>> => macAddress = normalizeMacAddress(x)
               /\ \A y \in Identifiers :
                      Folded(y) = Folded(x) =>
                          normalizeMacAddress(y) = normalizeMacAddress(x)
    /\ normalizeMacAddress(<<"a", "a", ":", "b", "b", "-", "c", "c", "-", "d",
                             "d", "-", "e", "e", "-", "f", "f">>) =
           <<"A", "A", "B", "B", "C", "C", "D", "D", "E", "E", "F", "F">>

\* The client held 0 and was updated with a-: it holds A.
C21_SeparatorsAndCaseStripped ==
    /\ lastCall.op = "updateSettings"
    /\ lastCall.partial.macAddress = <<"a", "-">>
    /\ lastCall.before.macAddress = <<"0">>
    /\ macAddress = <<"A">>

\* C22: for every boiler status b of a retrieve reply, an absent one counting
\* as 0, the snapshot has boilerHeating exactly if the bit of value 8 is set
\* in b (b modulo 16 is at least 8), hotWaterActive exactly if the bit of
\* value 4 is set (b modulo 8 is at least 4), and flameOn exactly if one of
\* the two holds, whatever the other bits of b are.
C22_FlagsFromBits ==
    (PollCompleted /\ lastPoll.ok) =>
        LET status == lastPoll.net.body.boiler_status
            b == IF status = Undef THEN 0 ELSE status
            data == lastPoll.data
        IN  /\ data.boilerHeating = (b % 16 >= 8)
            /\ data.hotWaterActive = (b % 8 >= 4)
            /\ data.flameOn = (data.boilerHeating \/ data.hotWaterActive)
            /\ data = lastSnapshot

\* The status 21 (16 + 4 + 1) gave hot water without heating, after a status
\* 27 (16 + 8 + 2 + 1) that gave heating without hot water.
C22_HotWaterAmongOtherBits ==
    /\ PollCompleted
    /\ lastPoll.ok
    /\ lastPoll.net.body.boiler_status = 21
    /\ lastPoll.prior.boilerHeating = TRUE
    /\ lastPoll.prior.hotWaterActive = FALSE
    /\ lastPoll.data.boilerHeating = FALSE
    /\ lastPoll.data.hotWaterActive = TRUE
    /\ lastPoll.data.flameOn = TRUE

\* C23: after the user has changed a connection setting, the settings of the
\* device's client equal the host's new settings, the identifier in its
\* normal form.
C23_ClientFollowsHostSettings ==
    lastCall.op = "onSettings" =>
        Settings(ipAddress, macAddress, deviceName, email) =
            Settings(settings.ip_address,
                     normalizeMacAddress(settings.mac_address),
                     settings.device_name, settings.email)

\* C24: the restoration that the latest override's timeout starts sets the
\* target temperature back to the value shown before the first of the
\* overrides that followed each other while a restoration was pending.
C24_RestoresValueBeforeFirstOverride ==
    \A q \in inflight :
        (q.kind = "restore" /\ q.timer = lastDuration /\ beforeOverride # Null)
            => q.temperature = beforeOverride

\* C25: a cycle that was started before a cycle that has completed
\* successfully, and that fails after it, does not mark the device unavailable.
C25_AvailabilityFollowsNewestCycle ==
    [][(/\ lastPoll.ok
        /\ lastPoll' # lastPoll
        /\ ~lastPoll'.ok
        /\ lastPoll'.seq < lastPoll.seq) => available']_vars

====
